---------------------------- MODULE Spec2Model ----------------------------
(***************************************************************************)
(* A state-machine model of the proxy load generator                       *)
(* (task_1/load-generator/load-generator.py): the Request Executor         *)
(* (_make_request), the Pattern Scheduler (_generate_traffic_pattern), the *)
(* periodic derived-metrics task (_update_system_metrics), the health      *)
(* document (health_handler) and the Run Coordinator (run).                *)
(*                                                                         *)
(* The program runs on one asyncio event loop: a task runs without         *)
(* interruption from one await to the next, so every action below is the   *)
(* code between two suspension points of one task.                         *)
(*                                                                         *)
(* The worker service (task_2/worker-service/worker.py) is modelled in a   *)
(* section of its own, with its own variables.                             *)
(***************************************************************************)
EXTENDS Integers, Sequences, FiniteSets, TLC

(***************************************************************************)
(* Bounds of the model.                                                    *)
(***************************************************************************)
\* Requests dispatched in one run of the general specification.
MaxRequests == 2

\* Clock ticks per second in the paced specification.
TicksPerSecond == 3

\* The longer of the two pattern durations of the paced specification, in
\* seconds.
LongDuration == 11

\* The worker service: the table jobs has at most MaxJobs rows, with the ids
\* 1..MaxJobs.
MaxJobs == 3

(***************************************************************************)
(* Inputs: configurations, requested pattern lists, transport outcomes.    *)
(***************************************************************************)

\* Two vendor registries a configuration file can supply: every vendor with
\* pools, and one vendor whose pool list is empty.
VendorsFull == ("vendor-a" :> <<"p1", "p2">>) @@ ("vendor-b" :> <<"p1">>)

VendorsEmptyPool == ("vendor-a" :> <<"p1", "p2">>) @@ ("vendor-b" :> <<>>)

\* Configurations: the vendors' pool lists and the destination list shared by
\* all patterns (config['destinations']).
Configs ==
    { [vendors |-> VendorsFull, destinations |-> <<"https://httpbin.org">>],
      [vendors |-> VendorsEmptyPool, destinations |-> <<"d1">>] }

\* The registry of the paced runs: one vendor, one pool.
VendorsSingle == ("vendor-a" :> <<"p1">>)

\* The traffic patterns of a configuration (TrafficPattern records).
PatternsOf(cfg) ==
    ("steady" :> [requests_per_second |-> 1, duration |-> 2,
                  methods |-> <<"GET">>, destinations |-> cfg.destinations,
                  payload_sizes |-> <<100>>])
    @@
    ("burst" :> [requests_per_second |-> 2, duration |-> 1,
                 methods |-> <<"POST">>, destinations |-> cfg.destinations,
                 payload_sizes |-> <<100>>])

\* Pattern-name lists handed to run(); "None" stands for pattern_names=None.
RequestedLists ==
    { <<"ghost", "steady">>, <<"ghost">>, <<"<None>">> }

\* Status codes the transport returns.
StatusCodes == {200, 503}

\* Response body lengths the transport returns.
BodySizes == {3}

(***************************************************************************)
(* Pure helpers.                                                           *)
(***************************************************************************)
Range(s) == { s[i] : i \in 1..Len(s) }

RECURSIVE SetSum(_, _)
\* The sum of f[x] over x in S.
SetSum(f, S) ==
    IF S = {} THEN 0
    ELSE LET x == CHOOSE y \in S : TRUE IN f[x] + SetSum(f, S \ {x})

\* The greatest common divisor, by a function so that its arguments are values.
Gcd(a, b) ==
    LET gcd[m \in Nat, n \in Nat] == IF n = 0 THEN m ELSE gcd[n, m % n]
    IN gcd[a, b]

\* Numbers are exact rationals <<numerator, denominator>> in lowest terms
\* (Python's floats, without their rounding).
Norm(n, d) == LET g == Gcd(n, d) IN <<n \div g, d \div g>>

\* a / b of two integers; the record is marked when b = 0 (ZeroDivisionError).
TrueDiv(a, b) ==
    IF b = 0 THEN [fault |-> TRUE, val |-> <<0, 1>>]
    ELSE [fault |-> FALSE, val |-> Norm(a, b)]

\* q * k for a rational q and an integer k.
Times(q, k) == Norm(q[1] * k, q[2])

\* str(response.status)
Str(code) ==
    CASE code = 200 -> "200"
      [] code = 201 -> "201"
      [] code = 400 -> "400"
      [] code = 404 -> "404"
      [] code = 500 -> "500"
      [] code = 503 -> "503"

\* destination.replace('https://', '').replace('http://', '')
DestinationHost(destination) ==
    CASE destination = "https://httpbin.org" -> "httpbin.org"
      [] destination = "https://jsonplaceholder.typicode.com" -> "jsonplaceholder.typicode.com"
      [] destination = "https://api.github.com" -> "api.github.com"
      [] destination = "https://postman-echo.com" -> "postman-echo.com"
      [] OTHER -> destination

(***************************************************************************)
(* State.                                                                  *)
(***************************************************************************)
VARIABLES
    vendors,             \* self.vendors: vendor name -> pool list
    patterns,            \* self.patterns: pattern name -> TrafficPattern
    pattern_names,       \* the argument of run()
    session,             \* self.session: "none", "open", "closed"
    coord,               \* where the program is: "new", "crashed" (the constructor), then
                         \* in run(): "init", "gathering", "idle", "returned", "exited"
    sched,               \* the scheduler tasks run() created, in creation order
    updater,             \* the _update_system_metrics task: "none", "alive" (in the
                         \* sleep of the try block), "recovering" (in the sleep of
                         \* the except block), "cancelled"
    tasks,               \* the _make_request tasks, in dispatch order
    request_count,       \* REQUEST_COUNTER: <<vendor, method, status, host>> -> count
    bytes_sent,          \* BANDWIDTH_SENT: <<vendor, host>> -> bytes
    bytes_received,      \* BANDWIDTH_RECEIVED: <<vendor, host>> -> bytes
    active_connections,  \* ACTIVE_CONNECTIONS: vendor -> gauge
    pool_health,         \* PROXY_POOL_HEALTH: <<vendor, pool>> -> 0 or 1
    error_rate,          \* ERROR_RATE: vendor -> gauge
    stats,               \* self.stats
    timer,               \* the clock and the event loop's timers, in ticks
    conn,                \* worker service: self.conn: "none", "open", "lost"
    jobs_table,          \* worker service: the table jobs, id -> status
    worker,              \* worker service: where run() is: "none", "connecting",
                         \* "fetching", "processing" (in process_job), "sleeping"
                         \* (the sleep of the else branch), "recovering" (the sleep
                         \* of the except block), "ended" (run() raised)
    jobs,                \* worker service: the local `jobs` of run(), a list of ids
    job                  \* worker service: the place in `jobs` of the local `job`

vars == <<vendors, patterns, pattern_names, session, coord, sched, updater, tasks,
          request_count, bytes_sent, bytes_received, active_connections,
          pool_health, error_rate, stats, timer, conn, jobs_table, worker, jobs, job>>

worker_vars == <<conn, jobs_table, worker, jobs, job>>

config_vars == <<vendors, patterns, pattern_names>>

metric_vars == <<request_count, bytes_sent, bytes_received, active_connections,
                 pool_health, stats>>

(***************************************************************************)
(* Metric families (prometheus_client): a labelled child exists once it is *)
(* written; a child that was never written reads 0.                        *)
(***************************************************************************)
\* <family>.labels(...)._value._value
Value(family, key) == IF key \in DOMAIN family THEN family[key] ELSE 0

\* <family>.labels(...).inc(amount)
Inc(family, key, amount) ==
    [k \in DOMAIN family \cup {key} |-> Value(family, k) + IF k = key THEN amount ELSE 0]

\* <family>.labels(...).set(value)
Set(family, key, value) ==
    [k \in DOMAIN family \cup {key} |-> IF k = key THEN value ELSE family[k]]

(***************************************************************************)
(* The state after LoadGenerator(config) is constructed, before run().     *)
(***************************************************************************)
\* No timer is armed and the clock reads 0.
NoTimer == [now |-> 0, end_time |-> <<>>, wake |-> <<>>, updater_wake |-> 0]

\* The worker service is another program; the load generator's runs leave it out.
NoWorker ==
    /\ conn = "none"
    /\ jobs_table = <<>>
    /\ worker = "none"
    /\ jobs = <<>>
    /\ job = 0

NoMetrics ==
    /\ request_count = <<>>
    /\ bytes_sent = <<>>
    /\ bytes_received = <<>>
    /\ active_connections = [v \in DOMAIN vendors |-> 0]
    /\ pool_health = <<>>
    /\ error_rate = [v \in DOMAIN vendors |-> <<0, 1>>]
    /\ stats = [total_requests |-> 0, successful_requests |-> 0, failed_requests |-> 0]

Init ==
    /\ \E cfg \in Configs :
          /\ vendors = cfg.vendors
          /\ patterns = PatternsOf(cfg)
    /\ pattern_names \in RequestedLists
    /\ session = "none"
    /\ coord = "init"
    /\ sched = <<>>
    /\ updater = "none"
    /\ tasks = <<>>
    /\ timer = NoTimer
    /\ NoMetrics
    /\ NoWorker

(***************************************************************************)
(* Request Executor: _make_request.                                        *)
(***************************************************************************)
\* A variant of EnterTry: the gauge is not incremented.
EnterTryNoInc(gauge, vendor) == gauge

\* ACTIVE_CONNECTIONS.labels(vendor).inc() on entering the try block.
EnterTry(gauge, vendor) == [gauge EXCEPT ![vendor] = @ + 1]

\* The finally block: ACTIVE_CONNECTIONS.labels(vendor).dec().
Finally(gauge, vendor) == [gauge EXCEPT ![vendor] = @ - 1]

\* health_status = 1 if 200 <= response.status < 400 else 0
HealthStatus(code) == IF 200 <= code /\ code < 400 THEN 1 ELSE 0

\* A variant of StatsAfterResponse: every response counts as successful.
StatsAfterResponseAllGood(st, code) ==
    [st EXCEPT !.total_requests = @ + 1, !.successful_requests = @ + 1]

\* A variant of StatsAfterResponse: a response outside [200, 400) is counted in
\* total only.
StatsAfterResponseFailureUncounted(st, code) ==
    IF 200 <= code /\ code < 400
    THEN [st EXCEPT !.total_requests = @ + 1, !.successful_requests = @ + 1]
    ELSE [st EXCEPT !.total_requests = @ + 1]

\* self.stats after a response with status `code`.
StatsAfterResponse(st, code) ==
    IF 200 <= code /\ code < 400
    THEN [st EXCEPT !.total_requests = @ + 1, !.successful_requests = @ + 1]
    ELSE [st EXCEPT !.total_requests = @ + 1, !.failed_requests = @ + 1]

\* A variant of StatsAfterFault: the failure is not counted as failed.
StatsAfterFaultTotalOnly(st) == [st EXCEPT !.total_requests = @ + 1]

\* A variant of StatsAfterFault: the failure count is written, not incremented.
StatsAfterFaultOverwrites(st) ==
    [st EXCEPT !.total_requests = @ + 1, !.failed_requests = 1]

\* self.stats after the except block.
StatsAfterFault(st) ==
    [st EXCEPT !.total_requests = @ + 1, !.failed_requests = @ + 1]

\* A variant of CountFault: a lost update, the count of the first failure
\* being written again by the next one.
CountFaultLostUpdate(counter, t) ==
    Set(counter, <<t.vendor, t.method, "error", DestinationHost(t.destination)>>, 1)

\* REQUEST_COUNTER after the except block.
CountFault(counter, t) ==
    Inc(counter, <<t.vendor, t.method, "error", DestinationHost(t.destination)>>, 1)

\* len(data.encode('utf-8')) of the payload built for the request: a payload of
\* payload_size characters for POST and PUT, none otherwise.
DataLength(t) ==
    IF t.method \in {"POST", "PUT"} /\ t.payload_size > 0 THEN t.payload_size ELSE 0

\* The except block and the finally block, for task r that chose `pool` and
\* has entered the try block.
ExceptAndFinally(r, pool) ==
    LET t == tasks[r] IN
    /\ request_count' = CountFault(request_count, t)
    /\ pool_health' = Set(pool_health, <<t.vendor, pool>>, 0)
    /\ stats' = StatsAfterFault(stats)
    /\ active_connections' = Finally(EnterTry(active_connections, t.vendor), t.vendor)
    /\ tasks' = [tasks EXCEPT ![r] = [t EXCEPT !.pool = pool, !.st = "returned",
                                                !.status = "error"]]
    /\ UNCHANGED <<bytes_sent, bytes_received>>

\* A request task runs from its first line to its first suspension: it picks a
\* pool, builds the request, enters the try block and calls the session.
\* random.choice of an empty pool list raises IndexError before the try block;
\* a closed session makes the call raise inside it.
StartRequest(r) ==
    /\ coord \in {"gathering", "idle", "returned"}
    /\ r \in DOMAIN tasks
    /\ tasks[r].st = "pending"
    /\ LET t == tasks[r] IN
       IF vendors[t.vendor] = <<>>
       THEN /\ tasks' = [tasks EXCEPT ![r] = [t EXCEPT !.st = "raised",
                                                       !.status = "IndexError"]]
            /\ UNCHANGED metric_vars
       ELSE \E pool \in Range(vendors[t.vendor]) :
              IF session = "open"
              THEN /\ active_connections' = EnterTry(active_connections, t.vendor)
                   /\ tasks' = [tasks EXCEPT ![r] = [t EXCEPT !.pool = pool,
                                                               !.st = "inflight"]]
                   /\ UNCHANGED <<request_count, bytes_sent, bytes_received,
                                  pool_health, stats>>
              ELSE ExceptAndFinally(r, pool)
    /\ UNCHANGED <<config_vars, session, coord, sched, updater, error_rate, timer,
                   worker_vars>>

\* The transport answers task r with status `code` and a body of `size`
\* bytes: the body of the `async with`, then the finally block.
ResponseArrives(r, code, size) ==
    /\ coord \in {"gathering", "idle", "returned"}
    /\ r \in DOMAIN tasks
    /\ tasks[r].st = "inflight"
    /\ LET t == tasks[r]
           host == DestinationHost(t.destination) IN
       /\ request_count' = Inc(request_count, <<t.vendor, t.method, Str(code), host>>, 1)
       /\ bytes_sent' = IF DataLength(t) > 0
                        THEN Inc(bytes_sent, <<t.vendor, host>>, DataLength(t))
                        ELSE bytes_sent
       /\ bytes_received' = Inc(bytes_received, <<t.vendor, host>>, size)
       /\ pool_health' = Set(pool_health, <<t.vendor, t.pool>>, HealthStatus(code))
       /\ stats' = StatsAfterResponse(stats, code)
       /\ active_connections' = Finally(active_connections, t.vendor)
       /\ tasks' = [tasks EXCEPT ![r] = [t EXCEPT !.st = "returned", !.status = Str(code)]]
    /\ UNCHANGED <<config_vars, session, coord, sched, updater, error_rate, timer,
                   worker_vars>>

\* The transport call of task r fails (timeout, connection error, any
\* Exception): the except block, then the finally block.
TransportFault(r) ==
    /\ coord \in {"gathering", "idle", "returned"}
    /\ r \in DOMAIN tasks
    /\ tasks[r].st = "inflight"
    /\ LET t == tasks[r] IN
       /\ request_count' = CountFault(request_count, t)
       /\ pool_health' = Set(pool_health, <<t.vendor, t.pool>>, 0)
       /\ stats' = StatsAfterFault(stats)
       /\ active_connections' = Finally(active_connections, t.vendor)
       /\ tasks' = [tasks EXCEPT ![r] = [t EXCEPT !.st = "returned", !.status = "error"]]
    /\ UNCHANGED <<config_vars, session, coord, sched, updater, error_rate, timer,
                   bytes_sent, bytes_received, worker_vars>>

\* The aggregates as one value.
Aggregates ==
    [request_count |-> request_count, bytes_sent |-> bytes_sent,
     bytes_received |-> bytes_received, active_connections |-> active_connections,
     pool_health |-> pool_health, stats |-> stats]

\* What the transport call of a request can end with: a response with a
\* status code and a body, or a fault.
Outcomes ==
    { [fault |-> FALSE, code |-> code, size |-> size] :
         code \in StatusCodes, size \in BodySizes }
    \cup { [fault |-> TRUE, code |-> 0, size |-> 0] }

\* The aggregates m after the in-flight request t ends with outcome o: the
\* body of the `async with` or the except block, then the finally block.
Fold(m, t, o) ==
    LET host == DestinationHost(t.destination) IN
    IF o.fault
    THEN [m EXCEPT !.request_count = CountFault(@, t),
                   !.pool_health = Set(@, <<t.vendor, t.pool>>, 0),
                   !.stats = StatsAfterFault(@),
                   !.active_connections = Finally(@, t.vendor)]
    ELSE [m EXCEPT !.request_count = Inc(@, <<t.vendor, t.method, Str(o.code), host>>, 1),
                   !.bytes_sent = IF DataLength(t) > 0
                                  THEN Inc(@, <<t.vendor, host>>, DataLength(t))
                                  ELSE @,
                   !.bytes_received = Inc(@, <<t.vendor, host>>, o.size),
                   !.pool_health = Set(@, <<t.vendor, t.pool>>, HealthStatus(o.code)),
                   !.stats = StatsAfterResponse(@, o.code),
                   !.active_connections = Finally(@, t.vendor)]

\* A request task is cancelled: one that never ran simply ends; one suspended
\* in the transport call gets CancelledError, which `except Exception` does
\* not catch, so only the finally block runs.
Cancelled(t) ==
    CASE t.st = "pending" -> [t EXCEPT !.st = "cancelled"]
      [] t.st = "inflight" -> [t EXCEPT !.st = "cancelled", !.status = "CancelledError"]
      [] OTHER -> t

\* A variant of CancelGauge: the decrement sits with the except block, which
\* a cancellation skips.
CancelGaugeSkipped(gauge, ts, n) == gauge

RECURSIVE CancelGauge(_, _, _)
\* ACTIVE_CONNECTIONS after the finally block of every in-flight task among
\* the first n tasks of ts.
CancelGauge(gauge, ts, n) ==
    IF n = 0 THEN gauge
    ELSE CancelGauge(IF ts[n].st = "inflight" THEN Finally(gauge, ts[n].vendor) ELSE gauge,
                     ts, n - 1)

(***************************************************************************)
(* Pattern Scheduler: _generate_traffic_pattern.                           *)
(***************************************************************************)
\* The task asyncio.create_task(self._make_request(...)) creates.
NewTask(vendor, method, destination, payload_size) ==
    [vendor |-> vendor, method |-> method, destination |-> destination,
     payload_size |-> payload_size, pool |-> "", st |-> "pending", status |-> ""]

\* Whether one pass of the loop body raises: random.choice of an empty list.
LoopBodyRaises(p) ==
    \/ DOMAIN vendors = {}
    \/ p.methods = <<>>
    \/ p.destinations = <<>>

\* One pass of the loop body of scheduler i: it picks vendor, method,
\* destination and payload size, creates the request task and goes to sleep.
Dispatch(i) ==
    LET p == patterns[sched[i].pattern] IN
    /\ \E vendor \in DOMAIN vendors, method \in Range(p.methods),
          destination \in Range(p.destinations) :
         IF method \in {"POST", "PUT"}
         THEN /\ p.payload_sizes # <<>>
              /\ \E size \in Range(p.payload_sizes) :
                    tasks' = Append(tasks, NewTask(vendor, method, destination, size))
         ELSE tasks' = Append(tasks, NewTask(vendor, method, destination, 0))
    /\ sched' = [sched EXCEPT ![i].pc = "sleeping", ![i].dispatched = @ + 1]

\* Scheduler i runs for the first time: end_time, request_interval (1.0 / 0
\* raises ZeroDivisionError), the first loop test and the first pass.
FirstPass(i) ==
    /\ coord \in {"gathering", "idle"}
    /\ i \in DOMAIN sched
    /\ sched[i].pc = "created"
    /\ LET p == patterns[sched[i].pattern] IN
       IF TrueDiv(1, p.requests_per_second).fault \/ (p.duration > 0 /\ LoopBodyRaises(p))
       THEN /\ sched' = [sched EXCEPT ![i].pc = "failed"]
            /\ UNCHANGED tasks
       ELSE IF p.duration > 0
            THEN Dispatch(i)
            ELSE /\ sched' = [sched EXCEPT ![i].pc = "completed"]
                 /\ UNCHANGED tasks
    /\ UNCHANGED <<config_vars, session, coord, updater, error_rate, metric_vars>>

\* A variant of NextPass: the scheduler awaits the requests it dispatched
\* before it dispatches the next one.
NextPassAfterCompletion(i) ==
    /\ coord \in {"gathering", "idle"}
    /\ i \in DOMAIN sched
    /\ sched[i].pc = "sleeping"
    /\ \A r \in DOMAIN tasks : tasks[r].st \notin {"pending", "inflight"}
    /\ Dispatch(i)
    /\ UNCHANGED <<config_vars, session, coord, updater, error_rate, metric_vars>>

\* Scheduler i is back from asyncio.sleep(request_interval), reads
\* time.time() < end_time as true and makes another pass.
NextPass(i) ==
    /\ coord \in {"gathering", "idle"}
    /\ i \in DOMAIN sched
    /\ sched[i].pc = "sleeping"
    /\ Dispatch(i)
    /\ UNCHANGED <<config_vars, session, coord, updater, error_rate, metric_vars>>

\* Scheduler i is back from the sleep and reads time.time() < end_time as
\* false: the loop ends.
LoopEnds(i) ==
    /\ coord \in {"gathering", "idle"}
    /\ i \in DOMAIN sched
    /\ sched[i].pc = "sleeping"
    /\ sched' = [sched EXCEPT ![i].pc = "completed"]
    /\ UNCHANGED <<config_vars, session, coord, updater, error_rate, metric_vars, tasks>>

\* In the general specification the clock is an input: after a sleep the
\* loop test may go either way, and at most MaxRequests requests are
\* dispatched in a run.
SchedulerStart(i) ==
    /\ Len(tasks) < MaxRequests
    /\ FirstPass(i)
    /\ UNCHANGED <<timer, worker_vars>>

SchedulerWake(i) ==
    /\ Len(tasks) < MaxRequests
    /\ NextPass(i)
    /\ UNCHANGED <<timer, worker_vars>>

SchedulerDone(i) ==
    /\ LoopEnds(i)
    /\ UNCHANGED <<timer, worker_vars>>

(***************************************************************************)
(* Derived metrics: the error-rate part of _update_system_metrics.         *)
(***************************************************************************)
RefreshMethods == {"GET", "POST", "PUT", "DELETE"}

RefreshStatuses == {"200", "201", "400", "404", "500", "error"}

RefreshErrorStatuses == {"400", "404", "500", "error"}

RefreshHosts ==
    {"httpbin.org", "jsonplaceholder.typicode.com", "api.github.com", "postman-echo.com"}

\* sum(REQUEST_COUNTER.labels(vendor, m, s, d)._value._value for m ... for s ... for d ...)
\* (a child that was never written adds 0).
SumCounter(counter, vendor, statuses) ==
    LET keys == { <<vendor, m, s, d>> : m \in RefreshMethods, s \in statuses,
                                        d \in RefreshHosts }
    IN SetSum(counter, keys \cap DOMAIN counter)

\* error_rate = (error_requests / total_requests * 100) if total_requests > 0 else 0
ErrorRate(counter, vendor) ==
    LET total_requests == SumCounter(counter, vendor, RefreshStatuses)
        error_requests == SumCounter(counter, vendor, RefreshErrorStatuses)
    IN IF total_requests > 0
       THEN Times(TrueDiv(error_requests, total_requests).val, 100)
       ELSE <<0, 1>>

\* One pass of the updater's loop: ERROR_RATE is set for every vendor, then
\* the task sleeps.  (CPU_USAGE and MEMORY_USAGE come from psutil and are read
\* by nothing modelled here.)
Refresh ==
    /\ coord \in {"gathering", "idle", "returned"}
    /\ updater \in {"alive", "recovering"}
    /\ error_rate' = [v \in DOMAIN vendors |-> ErrorRate(request_count, v)]
    /\ updater' = "alive"
    /\ UNCHANGED <<config_vars, session, coord, sched, tasks, metric_vars>>

\* A variant of RefreshRaises: the loop has no except block, and the exception
\* ends the task.
RefreshRaisesAndEnds ==
    /\ coord \in {"gathering", "idle", "returned"}
    /\ updater \in {"alive", "recovering"}
    /\ updater' = "failed"
    /\ UNCHANGED <<config_vars, session, coord, sched, tasks, error_rate, metric_vars>>

\* One pass of the updater's loop in which psutil raises before the error
\* rates are set: the except block logs and the task sleeps there.
RefreshRaises ==
    /\ coord \in {"gathering", "idle", "returned"}
    /\ updater \in {"alive", "recovering"}
    /\ updater' = "recovering"
    /\ UNCHANGED <<config_vars, session, coord, sched, tasks, error_rate, metric_vars>>

\* In the general specification a pass of the updater may come at any time.
UpdaterIterate ==
    /\ Refresh
    /\ UNCHANGED <<timer, worker_vars>>

(***************************************************************************)
(* The health document of health_handler (uptime left out).                *)
(***************************************************************************)
Max(a, b) == IF a >= b THEN a ELSE b

\* A variant of SuccessRate: the denominator is not guarded by max(..., 1).
SuccessRateUnguarded(st) ==
    LET q == TrueDiv(st.successful_requests, st.total_requests)
    IN [fault |-> q.fault, val |-> Times(q.val, 100)]

\* (successful_requests / max(total_requests, 1)) * 100
SuccessRate(st) ==
    LET q == TrueDiv(st.successful_requests, Max(st.total_requests, 1))
    IN [fault |-> q.fault, val |-> Times(q.val, 100)]

HealthDocument ==
    [status |-> "healthy",
     total_requests |-> stats.total_requests,
     successful_requests |-> stats.successful_requests,
     failed_requests |-> stats.failed_requests,
     success_rate |-> SuccessRate(stats)]

(***************************************************************************)
(* Run Coordinator: run(), and asyncio.run around it.                      *)
(***************************************************************************)
\* list(self.patterns.keys()): the patterns in the order of the configuration.
PatternOrder == <<"burst", "steady">>

\* pattern_names=None
None == <<"<None>">>

\* The names run() iterates over.
NamesToRun == IF pattern_names = None THEN PatternOrder ELSE pattern_names

RECURSIVE ValidNamesUntilUnknown(_)
\* A variant of ValidNames: the loop over the names stops at the first
\* unknown name.
ValidNamesUntilUnknown(names) ==
    IF names = <<>> \/ Head(names) \notin DOMAIN patterns THEN <<>>
    ELSE <<Head(names)>> \o ValidNamesUntilUnknown(Tail(names))

\* The names of a list that are in the Pattern Catalogue, in order: the
\* scheduler tasks run() creates.
ValidNames(names) == SelectSeq(names, LAMBDA n : n \in DOMAIN patterns)

\* A variant of Launch: run() gathers whatever it created, without the idle
\* loop of the else branch (gather of no task returns at once).
LaunchWithoutIdleLoop ==
    /\ coord = "init"
    /\ session' = "open"
    /\ updater' = "alive"
    /\ sched' = [i \in 1..Len(ValidNames(NamesToRun)) |->
                   [pattern |-> ValidNames(NamesToRun)[i], pc |-> "created",
                    dispatched |-> 0]]
    /\ coord' = "gathering"
    /\ UNCHANGED <<config_vars, tasks, error_rate, metric_vars>>

\* run() up to its first suspension with other tasks around: the session, the
\* metrics server, the updater task, one scheduler task per known name, then
\* gather (or the idle loop when no task was created).
Launch ==
    /\ coord = "init"
    /\ session' = "open"
    /\ updater' = "alive"
    /\ sched' = [i \in 1..Len(ValidNames(NamesToRun)) |->
                   [pattern |-> ValidNames(NamesToRun)[i], pc |-> "created",
                    dispatched |-> 0]]
    /\ coord' = IF sched' # <<>> THEN "gathering" ELSE "idle"
    /\ UNCHANGED <<config_vars, tasks, error_rate, metric_vars>>

RunStart ==
    /\ Launch
    /\ UNCHANGED <<timer, worker_vars>>

\* A variant of GatherReturns: gather without return_exceptions=True hands the
\* first exception of a scheduler task to run() as soon as it is raised.
GatherRaisesFirstFault ==
    /\ coord = "gathering"
    /\ \/ \E i \in DOMAIN sched : sched[i].pc = "failed"
       \/ \A i \in DOMAIN sched : sched[i].pc = "completed"
    /\ session' = "closed"
    /\ coord' = "returned"
    /\ UNCHANGED <<config_vars, sched, updater, tasks, error_rate, metric_vars, timer,
                   worker_vars>>

\* asyncio.gather returns once every scheduler task has ended; the finally
\* block closes the session and run() returns.
GatherReturns ==
    /\ coord = "gathering"
    /\ \A i \in DOMAIN sched : sched[i].pc \in {"completed", "failed"}
    /\ session' = "closed"
    /\ coord' = "returned"
    /\ UNCHANGED <<config_vars, sched, updater, tasks, error_rate, metric_vars, timer,
                   worker_vars>>

\* The idle loop: asyncio.sleep(60) returns and is called again.
IdleSleep ==
    /\ coord = "idle"
    /\ UNCHANGED vars

\* KeyboardInterrupt: asyncio.run cancels run(), which cancels the gathered
\* scheduler tasks; the finally block closes the session.
Interrupt ==
    /\ coord \in {"gathering", "idle"}
    /\ sched' = [i \in DOMAIN sched |->
                   IF sched[i].pc \in {"created", "sleeping"}
                   THEN [sched[i] EXCEPT !.pc = "cancelled"] ELSE sched[i]]
    /\ session' = "closed"
    /\ coord' = "returned"
    /\ UNCHANGED <<config_vars, updater, tasks, error_rate, metric_vars, timer,
                   worker_vars>>

\* asyncio.run, after run() has returned: every task still alive is cancelled
\* and the loop is closed.
LoopTeardown ==
    /\ coord = "returned"
    /\ coord' = "exited"
    /\ updater' = "cancelled"
    /\ tasks' = [r \in DOMAIN tasks |-> Cancelled(tasks[r])]
    /\ active_connections' = CancelGauge(active_connections, tasks, Len(tasks))
    /\ UNCHANGED <<config_vars, session, sched, error_rate, request_count,
                   bytes_sent, bytes_received, pool_health, stats, timer,
                   worker_vars>>

(***************************************************************************)
(* The general specification: any configuration, any transport outcome,    *)
(* any timing.                                                             *)
(***************************************************************************)
Next ==
    \/ RunStart
    \/ \E i \in DOMAIN sched : SchedulerStart(i)
    \/ \E i \in DOMAIN sched : SchedulerWake(i)
    \/ \E i \in DOMAIN sched : SchedulerDone(i)
    \/ \E r \in DOMAIN tasks : StartRequest(r)
    \/ \E r \in DOMAIN tasks, code \in StatusCodes, size \in BodySizes :
          ResponseArrives(r, code, size)
    \/ \E r \in DOMAIN tasks : TransportFault(r)
    \/ UpdaterIterate
    \/ GatherReturns
    \/ IdleSleep
    \/ Interrupt
    \/ LoopTeardown

Spec == Init /\ [][Next]_vars

(***************************************************************************)
(* The paced specification: one pattern run against a transport that       *)
(* answers 200 at once, with the clock and the event loop's timers.  A     *)
(* task runs as soon as it is ready, and the clock advances only when no   *)
(* task is ready, except that a blocking call advances it by itself.       *)
(***************************************************************************)
\* psutil.cpu_percent(interval=1): the calling thread sleeps for the interval.
CpuInterval == 1

\* asyncio.sleep(10) of the updater.
UpdateSleep == 10

\* The rates of the paced patterns: those whose interval is a whole number of
\* ticks.
PacedRates == { rps \in 1..TicksPerSecond : TicksPerSecond % rps = 0 }

PacedDurations == {2, LongDuration}

\* request_interval = 1.0 / pattern.requests_per_second, in ticks.
Interval(p) == TicksPerSecond \div p.requests_per_second

PacedInit ==
    /\ vendors = VendorsSingle
    /\ \E rps \in PacedRates, duration \in PacedDurations :
          patterns = ("steady" :> [requests_per_second |-> rps, duration |-> duration,
                                   methods |-> <<"GET">>, destinations |-> <<"d1">>,
                                   payload_sizes |-> <<100>>])
    /\ pattern_names = <<"steady">>
    /\ session = "none"
    /\ coord = "init"
    /\ sched = <<>>
    /\ updater = "none"
    /\ tasks = <<>>
    /\ timer = NoTimer
    /\ NoMetrics
    /\ NoWorker

\* run() starts: every task it created is ready at once.
PacedRunStart ==
    /\ Launch
    /\ UNCHANGED worker_vars
    /\ timer' = [now |-> 0, end_time |-> [i \in DOMAIN sched' |-> 0],
                 wake |-> [i \in DOMAIN sched' |-> 0], updater_wake |-> 0]

\* The first pass of scheduler i: end_time = time.time() + pattern.duration,
\* and the sleep ends request_interval from now.  The updater task was
\* created before the scheduler tasks and has run first.
PacedSchedulerStart(i) ==
    /\ timer.updater_wake > timer.now
    /\ FirstPass(i)
    /\ UNCHANGED worker_vars
    /\ LET p == patterns[sched[i].pattern] IN
       timer' = IF sched'[i].pc = "sleeping"
                THEN [timer EXCEPT !.end_time[i] = timer.now + p.duration * TicksPerSecond,
                                   !.wake[i] = timer.now + Interval(p)]
                ELSE timer

\* A variant of PacedSchedulerWake: the loop does not test the clock against
\* end_time before the next pass.
PacedSchedulerWakeUntested(i) ==
    /\ i \in DOMAIN sched
    /\ timer.wake[i] <= timer.now
    /\ NextPass(i)
    /\ UNCHANGED worker_vars
    /\ timer' = [timer EXCEPT !.wake[i] = timer.now + Interval(patterns[sched[i].pattern])]

\* Scheduler i is back from its sleep before end_time.
PacedSchedulerWake(i) ==
    /\ i \in DOMAIN sched
    /\ timer.wake[i] <= timer.now
    /\ timer.now < timer.end_time[i]
    /\ NextPass(i)
    /\ UNCHANGED worker_vars
    /\ timer' = [timer EXCEPT !.wake[i] = timer.now + Interval(patterns[sched[i].pattern])]

\* Scheduler i is back from its sleep at or after end_time.
PacedSchedulerDone(i) ==
    /\ i \in DOMAIN sched
    /\ timer.wake[i] <= timer.now
    /\ timer.now >= timer.end_time[i]
    /\ LoopEnds(i)
    /\ UNCHANGED <<timer, worker_vars>>

\* One pass of the updater's loop: cpu_percent(interval=1) holds the thread of
\* the event loop for CpuInterval seconds, the error rates are set, and the
\* task sleeps UpdateSleep seconds.
PacedUpdaterIterate ==
    /\ timer.updater_wake <= timer.now
    /\ Refresh
    /\ UNCHANGED worker_vars
    /\ timer' = [timer EXCEPT
                   !.now = @ + CpuInterval * TicksPerSecond,
                   !.updater_wake = timer.now + (CpuInterval + UpdateSleep) * TicksPerSecond]

\* Whether some task is ready to run.
SomeTaskReady ==
    \/ \E i \in DOMAIN sched :
          \/ sched[i].pc = "created"
          \/ sched[i].pc = "sleeping" /\ timer.wake[i] <= timer.now
    \/ updater = "alive" /\ timer.updater_wake <= timer.now
    \/ \E r \in DOMAIN tasks : tasks[r].st \in {"pending", "inflight"}
    \/ \A i \in DOMAIN sched : sched[i].pc \in {"completed", "failed"}

\* The event loop waits for its next timer: the clock advances.
Tick ==
    /\ coord = "gathering"
    /\ ~SomeTaskReady
    /\ UNCHANGED worker_vars
    /\ timer' = [timer EXCEPT !.now = @ + 1]
    /\ UNCHANGED <<config_vars, session, coord, sched, updater, tasks, error_rate,
                   metric_vars>>

PacedNext ==
    \/ PacedRunStart
    \/ \E i \in DOMAIN sched : PacedSchedulerStart(i)
    \/ \E i \in DOMAIN sched : PacedSchedulerWake(i)
    \/ \E i \in DOMAIN sched : PacedSchedulerDone(i)
    \/ \E r \in DOMAIN tasks : StartRequest(r)
    \/ \E r \in DOMAIN tasks, size \in BodySizes : ResponseArrives(r, 200, size)
    \/ PacedUpdaterIterate
    \/ Tick
    \/ GatherReturns
    \/ LoopTeardown

PacedSpec == PacedInit /\ [][PacedNext]_vars

(***************************************************************************)
(* The faulty-catalogue specification: runs of several patterns of which   *)
(* one makes its scheduler raise, with nothing interrupting the run.       *)
(***************************************************************************)
\* Patterns a configuration file can supply whose scheduler raises: a rate of
\* 0 (1.0 / 0 is ZeroDivisionError) and an empty destination list
\* (random.choice raises IndexError).
BrokenPatterns ==
    { [requests_per_second |-> 0, duration |-> 2, methods |-> <<"GET">>,
       destinations |-> <<"d1">>, payload_sizes |-> <<100>>],
      [requests_per_second |-> 1, duration |-> 2, methods |-> <<"GET">>,
       destinations |-> <<>>, payload_sizes |-> <<100>>] }

\* The requested lists of these runs: the broken pattern among sound ones.
FaultyLists == { <<"broken", "steady">>, <<"burst", "broken", "steady">> }

FaultyInit ==
    /\ vendors = VendorsSingle
    /\ \E broken \in BrokenPatterns :
          patterns = PatternsOf([destinations |-> <<"d1">>]) @@ ("broken" :> broken)
    /\ pattern_names \in FaultyLists
    /\ session = "none"
    /\ coord = "init"
    /\ sched = <<>>
    /\ updater = "none"
    /\ tasks = <<>>
    /\ timer = NoTimer
    /\ NoMetrics
    /\ NoWorker

FaultyNext ==
    \/ RunStart
    \/ \E i \in DOMAIN sched : SchedulerStart(i)
    \/ \E i \in DOMAIN sched : SchedulerWake(i)
    \/ \E i \in DOMAIN sched : SchedulerDone(i)
    \/ \E r \in DOMAIN tasks : StartRequest(r)
    \/ \E r \in DOMAIN tasks, code \in StatusCodes, size \in BodySizes :
          ResponseArrives(r, code, size)
    \/ \E r \in DOMAIN tasks : TransportFault(r)
    \/ UpdaterIterate
    \/ GatherReturns
    \/ LoopTeardown

FaultySpec == FaultyInit /\ [][FaultyNext]_vars

(***************************************************************************)
(* Configuration: _load_config, _initialize_vendors, _initialize_patterns. *)
(* A mapping is a function from its keys; a key that is absent is outside  *)
(* its domain.                                                             *)
(***************************************************************************)
\* default_config
DefaultConfig ==
    [vendors |->
       ("vendor-a" :> [base_url |-> "https://proxy-vendor-a.com",
                       pools |-> <<"datacenter-us-east", "datacenter-us-west",
                                   "datacenter-eu">>,
                       auth_headers |-> ("X-API-Key" :> "vendor-a-key"),
                       rate_limit |-> 1000, timeout |-> 30, retry_count |-> 3])
       @@
       ("vendor-b" :> [base_url |-> "https://proxy-vendor-b.com",
                       pools |-> <<"residential-us", "residential-eu",
                                   "residential-asia">>,
                       auth_headers |-> ("Authorization" :> "Bearer vendor-b-token"),
                       rate_limit |-> 500, timeout |-> 45, retry_count |-> 2])
       @@
       ("vendor-c" :> [base_url |-> "https://proxy-vendor-c.com",
                       pools |-> <<"mobile-us", "mobile-eu", "mobile-global">>,
                       auth_headers |-> ("X-Auth-Token" :> "vendor-c-token"),
                       rate_limit |-> 300, timeout |-> 60, retry_count |-> 1]),
     destinations |->
       <<"https://httpbin.org", "https://jsonplaceholder.typicode.com",
         "https://api.github.com", "https://postman-echo.com">>,
     traffic_patterns |->
       [burst |-> [requests_per_second |-> 50, duration |-> 300,
                   methods |-> <<"GET", "POST">>,
                   payload_sizes |-> <<100, 500, 1000, 5000>>],
        steady |-> [requests_per_second |-> 10, duration |-> 3600,
                    methods |-> <<"GET">>,
                    payload_sizes |-> <<100, 200>>],
        spike |-> [requests_per_second |-> 200, duration |-> 60,
                   methods |-> <<"GET", "POST", "PUT">>,
                   payload_sizes |-> <<50, 100, 500, 1000, 10000>>]]]

\* A variant of LoadConfig: only the missing file falls back to the defaults;
\* any other failure leaves the configuration empty.
LoadConfigMissingFileOnly(file) ==
    CASE file.kind = "mapping" -> file.value @@ DefaultConfig
      [] file.kind = "missing" -> DefaultConfig
      [] OTHER -> <<>>

\* self.config for the file at config_path.  open() raises FileNotFoundError
\* for a missing file and another OSError for an unreadable one,
\* yaml.safe_load raises YAMLError for an invalid document, and
\* {**default_config, **config} raises TypeError when the document is not a
\* mapping (empty, a sequence, a scalar); each of them returns default_config.
\* A mapping replaces the defaults key by key.
LoadConfig(file) ==
    IF file.kind = "mapping" THEN file.value @@ DefaultConfig ELSE DefaultConfig

\* The keys _initialize_vendors reads from a vendor's mapping.
VendorKeys ==
    {"base_url", "pools", "auth_headers", "rate_limit", "timeout", "retry_count"}

\* The keys _initialize_patterns reads from a pattern's mapping with [...]
\* (headers is read with .get).
PatternKeys == {"requests_per_second", "duration", "methods", "payload_sizes"}

\* self.vendors (the pool list of each vendor), or the KeyError of the first
\* key that is absent.
InitializeVendors(config) ==
    IF \/ "vendors" \notin DOMAIN config
       \/ \E name \in DOMAIN config.vendors :
             ~(VendorKeys \subseteq DOMAIN config.vendors[name])
    THEN [fault |-> TRUE, val |-> <<>>]
    ELSE [fault |-> FALSE,
          val |-> [name \in DOMAIN config.vendors |-> config.vendors[name].pools]]

\* self.patterns, or the KeyError of the first key that is absent.
InitializePatterns(config) ==
    IF \/ {"traffic_patterns", "destinations"} \cap DOMAIN config
            # {"traffic_patterns", "destinations"}
       \/ \E name \in DOMAIN config.traffic_patterns :
             ~(PatternKeys \subseteq DOMAIN config.traffic_patterns[name])
    THEN [fault |-> TRUE, val |-> <<>>]
    ELSE [fault |-> FALSE,
          val |-> [name \in DOMAIN config.traffic_patterns |->
                     LET c == config.traffic_patterns[name] IN
                     [requests_per_second |-> c.requests_per_second,
                      duration |-> c.duration, methods |-> c.methods,
                      destinations |-> config.destinations,
                      payload_sizes |-> c.payload_sizes]]]

(***************************************************************************)
(* The startup specification: LoadGenerator(config) is constructed from    *)
(* the file at config_path, then run() is called with names that are in no *)
(* catalogue.                                                              *)
(***************************************************************************)
\* {} and the mappings with one key.
Section(key, values) == { <<>> } \cup { key :> value : value \in values }

\* A vendor's mapping in a file, complete.
FileVendor ==
    [base_url |-> "https://proxy.example", pools |-> <<"p1">>,
     auth_headers |-> ("X-API-Key" :> "key"),
     rate_limit |-> 100, timeout |-> 10, retry_count |-> 1]

\* A pattern's mapping in a file, complete.
FilePattern ==
    [requests_per_second |-> 1, duration |-> 2, methods |-> <<"GET">>,
     payload_sizes |-> <<100>>]

\* The mapping m without key k.
Without(m, k) == [x \in DOMAIN m \ {k} |-> m[x]]

\* The `vendors` sections of the files: one vendor, complete, without pools,
\* without timeout.
FileVendors ==
    { "vendor-x" :> v :
        v \in {FileVendor, Without(FileVendor, "pools"), Without(FileVendor, "timeout")} }

\* The `destinations` sections of the files.
FileDestinations == { <<"d1">>, <<"d1", "d2">>, <<"https://httpbin.org">> }

\* The `traffic_patterns` sections of the files: one pattern, complete or
\* without one of its keys.
FilePatterns ==
    { "steady" :> c :
        c \in {FilePattern} \cup { Without(FilePattern, k) :
                                     k \in {"requests_per_second", "duration", "methods"} } }

\* What can be at config_path: no file, a file that cannot be read, a
\* document that is not YAML, an empty document, a sequence, a scalar, and
\* mappings with any of the three sections.
ConfigFiles ==
    { [kind |-> k, value |-> <<>>] :
        k \in {"missing", "unreadable", "invalid", "empty", "sequence", "scalar"} }
    \cup
    { [kind |-> "mapping", value |-> v @@ d @@ p] :
        v \in Section("vendors", FileVendors),
        d \in Section("destinations", FileDestinations),
        p \in Section("traffic_patterns", FilePatterns) }

\* Names handed to run() that no catalogue of these files holds.
UnknownLists == { <<"ghost">>, <<"ghost", "phantom">> }

\* Before LoadGenerator(config) is constructed.
StartupInit ==
    /\ vendors = <<>>
    /\ patterns = <<>>
    /\ pattern_names \in UnknownLists
    /\ session = "none"
    /\ coord = "new"
    /\ sched = <<>>
    /\ updater = "none"
    /\ tasks = <<>>
    /\ timer = NoTimer
    /\ NoMetrics
    /\ NoWorker

\* __init__ with `file` at config_path: _load_config, then
\* _initialize_vendors, then _initialize_patterns; a KeyError leaves the
\* constructor and ends the program.
ConstructFrom(file) ==
    LET config == LoadConfig(file)
        vs == InitializeVendors(config)
        ps == InitializePatterns(config) IN
    /\ coord = "new"
    /\ IF vs.fault \/ ps.fault
       THEN /\ coord' = "crashed"
            /\ UNCHANGED <<vendors, patterns, active_connections, error_rate>>
       ELSE /\ coord' = "init"
            /\ vendors' = vs.val
            /\ patterns' = ps.val
            /\ active_connections' = [v \in DOMAIN vs.val |-> 0]
            /\ error_rate' = [v \in DOMAIN vs.val |-> <<0, 1>>]
    /\ UNCHANGED <<pattern_names, session, sched, updater, tasks, request_count,
                   bytes_sent, bytes_received, pool_health, stats, timer,
                   worker_vars>>

Construct == \E file \in ConfigFiles : ConstructFrom(file)

StartupNext ==
    \/ Construct
    \/ RunStart
    \/ UpdaterIterate
    \/ IdleSleep
    \/ Interrupt
    \/ LoopTeardown

StartupSpec == StartupInit /\ [][StartupNext]_vars

(***************************************************************************)
(* The updater specification: runs of one pattern, or of none, in which a  *)
(* pass of the updater can raise.  The sleep of the updater ends and       *)
(* psutil does not fail forever: a pass that sets the error rates is       *)
(* taken if it stays possible.                                             *)
(***************************************************************************)
UpdaterLists == { <<"steady">>, <<"ghost">> }

UpdaterInit ==
    /\ vendors = VendorsSingle
    /\ patterns = PatternsOf([destinations |-> <<"https://httpbin.org">>])
    /\ pattern_names \in UpdaterLists
    /\ session = "none"
    /\ coord = "init"
    /\ sched = <<>>
    /\ updater = "none"
    /\ tasks = <<>>
    /\ timer = NoTimer
    /\ NoMetrics
    /\ NoWorker

UpdaterFaults ==
    /\ RefreshRaises
    /\ UNCHANGED <<timer, worker_vars>>

UpdaterNext ==
    \/ Next
    \/ UpdaterFaults

UpdaterSpec == UpdaterInit /\ [][UpdaterNext]_vars /\ WF_vars(UpdaterIterate)

(***************************************************************************)
(* The worker service (task_2/worker-service/worker.py): WorkerService.run *)
(* with connect_db, fetch_pending_jobs and process_job.  The table jobs is *)
(* an input; only this worker writes it.  A statement on the database      *)
(* takes effect or raises, and it raises when the connection is lost: the  *)
(* connection is made once, before the loop.                               *)
(***************************************************************************)
\* "... LIMIT 10"
FetchLimit == 10

\* Everything of the load generator, which the worker service leaves alone.
generator_vars == <<config_vars, session, coord, sched, updater, tasks, error_rate,
                    metric_vars, timer>>

JobStatuses == {"pending", "completed"}

\* The tables the worker may find.
JobTables == UNION { [1..n -> JobStatuses] : n \in 0..MaxJobs }

\* ... WHERE status = 'pending'
PendingJobs(table) == { id \in DOMAIN table : table[id] = "pending" }

\* The lists a SELECT without ORDER BY may return for the rows S, cut by LIMIT.
SelectResults(S) ==
    LET n == IF Cardinality(S) < FetchLimit THEN Cardinality(S) ELSE FetchLimit
    IN { s \in [1..n -> S] : \A i, k \in 1..n : s[i] = s[k] => i = k }

\* self.conn = await asyncpg.connect(...), and run() enters its loop.
ConnectDb ==
    /\ worker = "connecting"
    /\ conn' = "open"
    /\ worker' = "fetching"
    /\ UNCHANGED <<generator_vars, jobs_table, jobs, job>>

\* asyncpg.connect raises: connect_db logs and raises again, and run() ends.
ConnectDbRaises ==
    /\ worker = "connecting"
    /\ worker' = "ended"
    /\ UNCHANGED <<generator_vars, conn, jobs_table, jobs, job>>

\* The server or the network drops the connection; nothing assigns self.conn
\* again.
ConnectionLost ==
    /\ conn = "open"
    /\ conn' = "lost"
    /\ UNCHANGED <<generator_vars, jobs_table, worker, jobs, job>>

\* jobs = await self.fetch_pending_jobs(), then the test `if jobs`: the for
\* loop takes its first job, or the else branch sleeps.  fetch_pending_jobs
\* returns [] when the fetch raised.
Poll(fetched) ==
    /\ jobs' = fetched
    /\ IF jobs' # <<>>
       THEN worker' = "processing" /\ job' = 1
       ELSE worker' = "sleeping" /\ job' = job
    /\ UNCHANGED <<generator_vars, conn, jobs_table>>

\* The fetch returns rows.
FetchPendingJobs ==
    /\ worker = "fetching"
    /\ conn = "open"
    /\ \E fetched \in SelectResults(PendingJobs(jobs_table)) : Poll(fetched)

\* The fetch raises: the connection is lost, or the statement fails.
FetchRaises ==
    /\ worker = "fetching"
    /\ Poll(<<>>)

\* UPDATE jobs SET status = 'completed', ... WHERE id = $3
Update(table, id) == [table EXCEPT ![id] = "completed"]

\* process_job(job) returns: the sleep, then the UPDATE; the for loop takes
\* the next job, or the while loop goes round at once.
ProcessJob ==
    /\ worker = "processing"
    /\ conn = "open"
    /\ jobs_table' = Update(jobs_table, jobs[job])
    /\ IF job < Len(jobs)
       THEN job' = job + 1 /\ worker' = "processing"
       ELSE job' = job /\ worker' = "fetching"
    /\ UNCHANGED <<generator_vars, conn, jobs>>

\* The UPDATE raises: the except block of run() logs and sleeps.  The locals
\* jobs and job keep their values.
ProcessRaises ==
    /\ worker = "processing"
    /\ worker' = "recovering"
    /\ UNCHANGED <<generator_vars, conn, jobs_table, jobs, job>>

\* await asyncio.sleep(10) of the else branch returns.
WakeUp ==
    /\ worker = "sleeping"
    /\ worker' = "fetching"
    /\ UNCHANGED <<generator_vars, conn, jobs_table, jobs, job>>

\* await asyncio.sleep(5) of the except block returns.
WakeUpAfterError ==
    /\ worker = "recovering"
    /\ worker' = "fetching"
    /\ UNCHANGED <<generator_vars, conn, jobs_table, jobs, job>>

\* WorkerService() before run(): the table is as other services left it.
WorkerInit ==
    /\ vendors = VendorsSingle
    /\ patterns = PatternsOf([destinations |-> <<"https://httpbin.org">>])
    /\ pattern_names = <<>>
    /\ session = "none"
    /\ coord = "init"
    /\ sched = <<>>
    /\ updater = "none"
    /\ tasks = <<>>
    /\ timer = NoTimer
    /\ NoMetrics
    /\ conn = "none"
    /\ jobs_table \in JobTables
    /\ worker = "connecting"
    /\ jobs = <<>>
    /\ job = 0

WorkerNext ==
    \/ ConnectDb
    \/ ConnectDbRaises
    \/ ConnectionLost
    \/ FetchPendingJobs
    \/ FetchRaises
    \/ ProcessJob
    \/ ProcessRaises
    \/ WakeUp
    \/ WakeUpAfterError

\* The timers of the two sleeps fire, and a fetch on an open connection does
\* not raise forever.
WorkerSpec ==
    /\ WorkerInit
    /\ [][WorkerNext]_vars
    /\ WF_vars(WakeUp)
    /\ WF_vars(WakeUpAfterError)
    /\ SF_vars(FetchPendingJobs)

(***************************************************************************)
(* Properties.                                                             *)
(***************************************************************************)
\* The requests against `vendor` that are executing: started, not yet ended.
InFlight(vendor) ==
    { r \in DOMAIN tasks : tasks[r].vendor = vendor /\ tasks[r].st = "inflight" }

\* The requests against `vendor` that were started and have ended, however.
Ended(vendor) ==
    { r \in DOMAIN tasks : /\ tasks[r].vendor = vendor
                           /\ \/ tasks[r].st \in {"returned", "raised"}
                              \/ tasks[r].status = "CancelledError" }

\* C1: for every vendor, once every request started against it has ended
\* (with a response, a transport fault, or cancelled at shutdown),
\* active_connections[vendor] is 0.
ActiveConnectionsReturnToZero ==
    \A v \in DOMAIN vendors : InFlight(v) = {} => active_connections[v] = 0

\* C1 witness: the run has shut down; one vendor had a request that ended with
\* a transport fault and one that was cancelled while in flight.
ShutDownAfterFaultAndCancel ==
    /\ coord = "exited"
    /\ \E v \in DOMAIN vendors : \E r1, r2 \in Ended(v) :
          /\ tasks[r1].status = "error"
          /\ tasks[r2].status = "CancelledError"

\* C2: in every state and for every vendor, active_connections[vendor] is the
\* number of requests against that vendor that are executing; it is never
\* negative.
ActiveConnectionsCountInFlight ==
    \A v \in DOMAIN vendors :
       /\ active_connections[v] = Cardinality(InFlight(v))
       /\ active_connections[v] >= 0

\* C2 witness: two requests against one vendor are in flight while another
\* vendor has none.
TwoInFlight ==
    \E v, w \in DOMAIN vendors :
       /\ Cardinality(InFlight(v)) = 2
       /\ active_connections[v] = 2
       /\ active_connections[w] = 0

\* Task r completes with status `code` in this step.
CompletesWith(r, code) ==
    /\ tasks[r].st = "inflight"
    /\ tasks'[r].st = "returned"
    /\ tasks'[r].status = Str(code)

\* C3: when a request completes with status S, pool_health of its vendor and
\* pool becomes 1 and successful grows by 1 (failed unchanged) if
\* 200 <= S < 400, and otherwise pool_health becomes 0 and failed grows by 1
\* (successful unchanged); total grows by 1 either way.
CompletionClassified ==
    [][\A r \in DOMAIN tasks, code \in StatusCodes :
         CompletesWith(r, code) =>
           /\ stats'.total_requests = stats.total_requests + 1
           /\ IF 200 <= code /\ code < 400
              THEN /\ pool_health'[<<tasks[r].vendor, tasks[r].pool>>] = 1
                   /\ stats'.successful_requests = stats.successful_requests + 1
                   /\ stats'.failed_requests = stats.failed_requests
              ELSE /\ pool_health'[<<tasks[r].vendor, tasks[r].pool>>] = 0
                   /\ stats'.failed_requests = stats.failed_requests + 1
                   /\ stats'.successful_requests = stats.successful_requests]_vars

\* C3 witness: one request completed with 200 and one with 503, on two pools
\* of one vendor.
OneGoodOneBadResponse ==
    \E r1, r2 \in DOMAIN tasks :
       /\ tasks[r1].st = "returned" /\ tasks[r1].status = "200"
       /\ tasks[r2].st = "returned" /\ tasks[r2].status = "503"
       /\ tasks[r1].vendor = tasks[r2].vendor
       /\ tasks[r1].pool # tasks[r2].pool
       /\ pool_health[<<tasks[r1].vendor, tasks[r1].pool>>] = 1
       /\ pool_health[<<tasks[r2].vendor, tasks[r2].pool>>] = 0
       /\ stats = [total_requests |-> 2, successful_requests |-> 1, failed_requests |-> 1]

\* The transport call of task r fails in this step: while the task is
\* suspended in it, or at once because the session is closed.
TransportFails(r) ==
    \/ TransportFault(r)
    \/ /\ session = "closed"
       /\ vendors[tasks[r].vendor] # <<>>
       /\ StartRequest(r)

\* The key of REQUEST_COUNTER for a failure of task t.
ErrorKey(t) == <<t.vendor, t.method, "error", DestinationHost(t.destination)>>

\* C4: when the transport call of a request fails, the task does not raise:
\* it returns an outcome with the error marker; request_count of the "error"
\* key grows by 1, pool_health of the chosen pool is 0, total and failed grow
\* by 1 and successful is unchanged.
TransportFaultAbsorbed ==
    [][\A r \in DOMAIN tasks :
         TransportFails(r) =>
           /\ tasks'[r].st = "returned"
           /\ tasks'[r].status = "error"
           /\ Value(request_count', ErrorKey(tasks[r]))
                = Value(request_count, ErrorKey(tasks[r])) + 1
           /\ pool_health'[<<tasks[r].vendor, tasks'[r].pool>>] = 0
           /\ stats'.total_requests = stats.total_requests + 1
           /\ stats'.failed_requests = stats.failed_requests + 1
           /\ stats'.successful_requests = stats.successful_requests]_vars

\* C4 witness: a pool that was healthy after a 200 is unhealthy after a
\* transport fault of a later request.
FaultAfterSuccess ==
    \E r1, r2 \in DOMAIN tasks :
       /\ r1 # r2
       /\ tasks[r1].status = "200"
       /\ tasks[r2].status = "error"
       /\ tasks[r1].vendor = tasks[r2].vendor
       /\ tasks[r1].pool = tasks[r2].pool
       /\ pool_health[<<tasks[r2].vendor, tasks[r2].pool>>] = 0
       /\ Value(request_count, ErrorKey(tasks[r2])) = 1
       /\ stats = [total_requests |-> 2, successful_requests |-> 1, failed_requests |-> 1]

\* C5: any failure of a request, faults raised while the request is built
\* included, is absorbed by the executor: no request task ends by raising,
\* and every request that ended without being cancelled is counted in
\* RunStatistics and recorded in request_count.
EveryFailureAbsorbed ==
    /\ \A r \in DOMAIN tasks : tasks[r].st # "raised"
    /\ stats.total_requests
         = Cardinality({ r \in DOMAIN tasks : tasks[r].st \in {"returned", "raised"} })
    /\ SetSum(request_count, DOMAIN request_count) = stats.total_requests

\* Whether a status label of REQUEST_COUNTER is the error marker or a status
\* code outside [200, 400).
IsErrorLabel(label) ==
    \/ label = "error"
    \/ \E code \in StatusCodes : Str(code) = label /\ ~(200 <= code /\ code < 400)

\* The requests recorded for `vendor` in `counter`, whatever the method, the
\* status and the destination.
Recorded(counter, vendor) ==
    SetSum(counter, { k \in DOMAIN counter : k[1] = vendor })

\* Those of them recorded with the error marker or a status outside [200, 400).
RecordedErrors(counter, vendor) ==
    SetSum(counter, { k \in DOMAIN counter : k[1] = vendor /\ IsErrorLabel(k[3]) })

\* C6: after a refresh, error_rate[vendor] is 0 when nothing is recorded for
\* the vendor and 100 when something is and all of it is errors, whatever
\* the methods, status codes and destinations.
ErrorRateExtremes ==
    [][UpdaterIterate =>
         \A v \in DOMAIN vendors :
            /\ Recorded(request_count, v) = 0 => error_rate'[v] = <<0, 1>>
            /\ (/\ Recorded(request_count, v) > 0
                /\ RecordedErrors(request_count, v) = Recorded(request_count, v))
                 => error_rate'[v] = <<100, 1>>]_vars

\* C7: after a refresh, error_rate[vendor] is 100 x errorCount / totalCount
\* over every key recorded for the vendor (0 when totalCount is 0).
ErrorRateIsErrorShare ==
    [][UpdaterIterate =>
         \A v \in DOMAIN vendors :
            error_rate'[v] =
               IF Recorded(request_count, v) = 0 THEN <<0, 1>>
               ELSE Norm(100 * RecordedErrors(request_count, v),
                         Recorded(request_count, v))]_vars

\* C9: the health document's success_rate is successful / total x 100 when
\* total > 0 and 0 when total = 0, and computing it never divides by zero.
SuccessRateOfHealthDocument ==
    /\ ~HealthDocument.success_rate.fault
    /\ HealthDocument.success_rate.val =
         IF HealthDocument.total_requests > 0
         THEN Norm(HealthDocument.successful_requests * 100, HealthDocument.total_requests)
         ELSE <<0, 1>>

\* C9 witness: half of the requests succeeded and the document says 50.
HalfSucceeded ==
    /\ stats.total_requests = 2
    /\ stats.successful_requests = 1
    /\ HealthDocument.success_rate.val = <<50, 1>>

\* The positions of the requested list that name a known pattern.
KnownPositions ==
    { k \in 1..Len(NamesToRun) : NamesToRun[k] \in DOMAIN patterns }

\* C10: given a list with unknown names, run() raises no fault and launches
\* one scheduler for each requested name that is in the catalogue, in order,
\* and none for the unknown names.
UnknownNamesSkipped ==
    coord # "init" =>
      /\ coord \in {"gathering", "idle", "returned", "exited"}
      /\ Len(sched) = Cardinality(KnownPositions)
      /\ \A i \in DOMAIN sched : sched[i].pattern \in DOMAIN patterns
      /\ \A n \in DOMAIN patterns :
            Cardinality({ i \in DOMAIN sched : sched[i].pattern = n })
              = Cardinality({ k \in KnownPositions : NamesToRun[k] = n })

\* C10 witness: an unknown name came before a known one; the known pattern's
\* scheduler ran to completion and its request was answered.
RunProceededPastUnknownName ==
    /\ Len(pattern_names) = 2
    /\ pattern_names[1] \notin DOMAIN patterns
    /\ Len(sched) = 1
    /\ sched[1].pattern = pattern_names[2]
    /\ sched[1].pc = "completed"
    /\ \E r \in DOMAIN tasks : tasks[r].status = "200"

\* C8: a pattern with rate R and duration D, run against a transport that
\* always succeeds at once with the updater running alongside, has dispatched
\* R x D requests, give or take 1, when its scheduler completes.
DispatchedWithinOneOfRateTimesDuration ==
    \A i \in DOMAIN sched :
       sched[i].pc = "completed" =>
          LET p == patterns[sched[i].pattern]
              expected == p.requests_per_second * p.duration
          IN /\ sched[i].dispatched >= expected - 1
             /\ sched[i].dispatched <= expected + 1

\* C11: when no requested name is in the catalogue, run() goes into the idle
\* loop with the session open, and from there no step of the program itself
\* (any step but the interrupt from outside) returns from run(), closes the
\* session or stops the updater: the run stays idle.
ZeroSchedulersIdleForever ==
    [][/\ (coord = "init" /\ ValidNames(NamesToRun) = <<>>)
            => (coord' = "idle" /\ session' = "open" /\ updater' = "alive")
       /\ (coord = "idle" /\ ~Interrupt)
            => (coord' = "idle" /\ session' = "open" /\ updater' = "alive"
                /\ sched' = <<>>)]_vars

\* C11 witness: a run asked for an unknown pattern only is idle, its session
\* open and its updater alive.
IdleWithNoScheduler ==
    /\ pattern_names = <<"ghost">>
    /\ coord = "idle"
    /\ sched = <<>>
    /\ session = "open"
    /\ updater = "alive"

\* Whether the scheduler of pattern p raises on its first pass.
RaisesAtStart(p) ==
    TrueDiv(1, p.requests_per_second).fault \/ (p.duration > 0 /\ LoopBodyRaises(p))

\* C12: when one of several schedulers raises, the step changes no sibling
\* and does not end the run; each sibling can go on dispatching; run() leaves
\* gather only by returning, and only once every sound pattern's scheduler
\* has completed (the broken one having failed).
SchedulerFaultIsolated ==
    [][/\ \A i \in DOMAIN sched :
             (sched[i].pc = "created" /\ sched'[i].pc = "failed") =>
                /\ \A j \in DOMAIN sched \ {i} : sched'[j] = sched[j]
                /\ coord' = coord
                /\ session' = session
                /\ \A j \in DOMAIN sched \ {i} :
                      (sched[j].pc = "created" /\ Len(tasks) < MaxRequests)
                         => ENABLED SchedulerStart(j)
                /\ \A j \in DOMAIN sched \ {i} :
                      (sched[j].pc = "sleeping" /\ Len(tasks) < MaxRequests)
                         => ENABLED SchedulerWake(j)
       /\ (coord = "gathering" /\ coord' # "gathering") =>
             /\ coord' = "returned"
             /\ \A i \in DOMAIN sched :
                   sched[i].pc = IF RaisesAtStart(patterns[sched[i].pattern])
                                 THEN "failed" ELSE "completed"]_vars

\* C12 witness: the run is over; the broken pattern's scheduler failed, and
\* its two siblings completed, each after a dispatch that was answered.
SiblingsCompletedAfterFault ==
    /\ coord = "exited"
    /\ Len(sched) = 3
    /\ sched[1].pc = "completed"
    /\ sched[2].pc = "failed"
    /\ sched[3].pc = "completed"
    /\ sched[3].dispatched = 1
    /\ sched[1].dispatched = 1
    /\ \A r \in DOMAIN tasks : tasks[r].status = "200"

\* The steps a scheduler's position can take: Idle (created), Running
\* (sleeping between passes), Completed.
LifeCycleSteps ==
    { <<"created", "created">>, <<"created", "sleeping">>, <<"sleeping", "sleeping">>,
      <<"sleeping", "completed">>, <<"completed", "completed">> }

\* C13: a scheduler moves only Idle -> Running -> Completed; end_time is set
\* on entering Running to the time of entering plus the duration and never
\* changes; every dispatch is made by a scheduler that is Running, at a time
\* before its end_time; a Completed scheduler dispatches nothing more.
SchedulerLifeCycle ==
    [][/\ \A i \in DOMAIN sched :
             /\ <<sched[i].pc, sched'[i].pc>> \in LifeCycleSteps
             /\ (sched[i].pc = "created" /\ sched'[i].pc = "sleeping") =>
                   timer'.end_time[i]
                     = timer.now + patterns[sched[i].pattern].duration * TicksPerSecond
             /\ sched[i].pc # "created" => timer'.end_time[i] = timer.end_time[i]
             /\ sched'[i].dispatched # sched[i].dispatched =>
                   /\ sched'[i].dispatched = sched[i].dispatched + 1
                   /\ sched[i].pc \in {"created", "sleeping"}
                   /\ sched'[i].pc = "sleeping"
                   /\ timer.now < timer'.end_time[i]
             /\ sched[i].pc = "completed" => sched'[i] = sched[i]
       /\ Len(tasks') # Len(tasks) =>
             /\ Len(tasks') = Len(tasks) + 1
             /\ \E i \in DOMAIN sched : sched'[i].dispatched = sched[i].dispatched + 1]_vars

\* C13 witness: a scheduler has completed at or after its end_time, having
\* dispatched several requests, and the run has not yet returned.
CompletedAtDeadline ==
    /\ coord = "gathering"
    /\ sched[1].pc = "completed"
    /\ sched[1].dispatched >= 2
    /\ timer.now >= timer.end_time[1]

\* The request tasks that started executing: they have chosen their pool.
Started == { r \in DOMAIN tasks : tasks[r].pool # "" }

\* C14: every dispatched request produces one outcome that is folded once
\* into the aggregates, those still in flight when run() stops awaiting the
\* schedulers included: when a run whose schedulers all completed (every
\* vendor having pools) is over, every request that started executing has
\* returned its outcome, and total and the sum of request_count equal their
\* number.
EveryStartedRequestFolded ==
    (/\ coord = "exited"
     /\ \A i \in DOMAIN sched : sched[i].pc = "completed"
     /\ \A v \in DOMAIN vendors : vendors[v] # <<>>)
      => /\ \A r \in Started : tasks[r].st = "returned"
         /\ stats.total_requests = Cardinality(Started)
         /\ SetSum(request_count, DOMAIN request_count) = Cardinality(Started)

\* The requests that were dispatched and have not ended.
Outstanding == { r \in DOMAIN tasks : tasks[r].st \in {"pending", "inflight"} }

\* C15: a scheduler that has not ended can make its next pass whenever the
\* clock reads before end_time, whatever the number of requests outstanding
\* (the run's requests not being used up).
DispatchNeverWaits ==
    \A i \in DOMAIN sched :
       (coord = "gathering" /\ Len(tasks) < MaxRequests) =>
          /\ sched[i].pc = "created" => ENABLED SchedulerStart(i)
          /\ sched[i].pc = "sleeping" => ENABLED SchedulerWake(i)

\* C15 witness: the two requests one scheduler dispatched are in flight
\* together.
OneSchedulerTwoInFlight ==
    /\ Len(sched) = 1
    /\ sched[1].dispatched = 2
    /\ sched[1].pc = "sleeping"
    /\ Cardinality(Outstanding) = 2
    /\ \A r \in Outstanding : tasks[r].st = "inflight"

\* C16: no step of a task keeps the event loop from the other tasks: a step
\* that leaves a sleeping scheduler asleep does not move the clock past the
\* end of its sleep, and a step that leaves a request with its response
\* ready where it is does not move the clock at all.
NoStepStallsOtherTasks ==
    [][/\ \A i \in DOMAIN sched :
             (sched[i].pc = "sleeping" /\ sched'[i] = sched[i]
                /\ timer'.now > timer.now)
               => timer'.now <= timer.wake[i]
       /\ \A r \in DOMAIN tasks :
             (tasks[r].st \in {"pending", "inflight"} /\ tasks'[r] = tasks[r])
               => timer'.now = timer.now]_vars

\* The requests that have completed: they returned an outcome, a response or
\* the error marker.
Completed == { r \in DOMAIN tasks : tasks[r].st = "returned" }

\* The key of REQUEST_COUNTER under which a completed request is recorded.
OutcomeKey(t) == <<t.vendor, t.method, t.status, DestinationHost(t.destination)>>

\* C17: in every state, whatever the interleaving of the requests, total is
\* the number N of completed requests, every key of request_count holds the
\* number of completed requests with that key, and they sum to N.
NoCounterUpdateLost ==
    /\ stats.total_requests = Cardinality(Completed)
    /\ \A k \in DOMAIN request_count :
          request_count[k] = Cardinality({ r \in Completed : OutcomeKey(tasks[r]) = k })
    /\ \A r \in Completed : OutcomeKey(tasks[r]) \in DOMAIN request_count
    /\ SetSum(request_count, DOMAIN request_count) = Cardinality(Completed)

\* C17 witness: requests of two schedulers were in flight together and the one
\* dispatched later has completed first.
LaterRequestCompletedFirst ==
    \E r1, r2 \in DOMAIN tasks :
       /\ r1 < r2
       /\ tasks[r1].method # tasks[r2].method
       /\ tasks[r1].st = "inflight"
       /\ tasks[r2].st = "returned"
       /\ stats.total_requests = 1

\* The aggregates after the in-flight requests r1 then r2 end with o1 and o2.
FoldTwo(r1, o1, r2, o2) == Fold(Fold(Aggregates, tasks[r1], o1), tasks[r2], o2)

\* C18: for any two requests in flight and any outcomes of theirs, the
\* aggregates (request_count, bytes_sent, bytes_received, active_connections,
\* pool_health and RunStatistics) after both have completed are the same
\* whichever completes first.
CompletionOrderIrrelevant ==
    \A r1, r2 \in DOMAIN tasks : \A o1, o2 \in Outcomes :
       (r1 # r2 /\ tasks[r1].st = "inflight" /\ tasks[r2].st = "inflight")
          => FoldTwo(r1, o1, r2, o2) = FoldTwo(r2, o2, r1, o1)

\* 1 for a response with a status in [200, 400), 0 for any other outcome.
Signal(o) == IF ~o.fault /\ 200 <= o.code /\ o.code < 400 THEN 1 ELSE 0

\* C18 amended: every completion folds its outcome into the aggregates in
\* one step; for any two requests in flight and any outcomes of theirs,
\* request_count, bytes_sent, bytes_received, active_connections and
\* RunStatistics after both have completed are the same whichever completes
\* first, and pool_health of a pool is the signal of the request that
\* completed last on it (so it is the same too unless the two requests used
\* one pool and their signals differ).
CountersOrderIrrelevant ==
    /\ [][\A r \in DOMAIN tasks : \A o \in Outcomes :
             (IF o.fault THEN TransportFault(r) ELSE ResponseArrives(r, o.code, o.size))
                => Aggregates' = Fold(Aggregates, tasks[r], o)]_vars
    /\ [](\A r1, r2 \in DOMAIN tasks : \A o1, o2 \in Outcomes :
             (r1 < r2 /\ tasks[r1].st = "inflight" /\ tasks[r2].st = "inflight") =>
                LET a == FoldTwo(r1, o1, r2, o2)
                    b == FoldTwo(r2, o2, r1, o1)
                    pool1 == <<tasks[r1].vendor, tasks[r1].pool>>
                    pool2 == <<tasks[r2].vendor, tasks[r2].pool>>
                IN /\ [a EXCEPT !.pool_health = <<>>] = [b EXCEPT !.pool_health = <<>>]
                   /\ a.pool_health[pool2] = Signal(o2)
                   /\ b.pool_health[pool1] = Signal(o1)
                   /\ (pool1 # pool2 \/ Signal(o1) = Signal(o2))
                        => a.pool_health = b.pool_health)

\* C18 witness: two requests used one pool; the one dispatched first got a
\* 200 and the other a 503, and the pool reads healthy: the 200 came last.
SamePoolSuccessCameLast ==
    \E r1, r2 \in Completed :
       /\ r1 < r2
       /\ tasks[r1].vendor = tasks[r2].vendor
       /\ tasks[r1].pool = tasks[r2].pool
       /\ tasks[r1].status = "200"
       /\ tasks[r2].status = "503"
       /\ pool_health[<<tasks[r1].vendor, tasks[r1].pool>>] = 1
       /\ stats = [total_requests |-> 2, successful_requests |-> 1, failed_requests |-> 1]

\* C19: when loading the configuration fails (no file, an unreadable file, a
\* document that is not YAML or not a mapping), the constructor completes,
\* and the registry and the catalogue are the built-in ones: three vendors
\* with their pools, and the patterns burst, steady and spike over the four
\* destinations.
DefaultsOnLoadFailure ==
    [][\A file \in ConfigFiles :
         (ConstructFrom(file) /\ file.kind # "mapping") =>
            /\ coord' = "init"
            /\ DOMAIN vendors' = {"vendor-a", "vendor-b", "vendor-c"}
            /\ Cardinality(DOMAIN vendors') = 3
            /\ \A v \in DOMAIN vendors' : Len(vendors'[v]) = 3
            /\ DOMAIN patterns' = {"burst", "steady", "spike"}
            /\ patterns'["burst"].requests_per_second = 50
            /\ patterns'["steady"].requests_per_second = 10
            /\ patterns'["spike"].requests_per_second = 200
            /\ \A n \in DOMAIN patterns' :
                  /\ Len(patterns'[n].destinations) = 4
                  /\ { DestinationHost(d) : d \in Range(patterns'[n].destinations) }
                       = RefreshHosts]_vars

\* C19 witness: the program was built with the three default vendors and the
\* three default patterns, and run() has started on it.
RunningOnDefaults ==
    /\ coord = "idle"
    /\ session = "open"
    /\ Cardinality(DOMAIN vendors) = 3
    /\ DOMAIN patterns = {"burst", "steady", "spike"}
    /\ Len(patterns["spike"].destinations) = 4

\* C20: a file that loads as a mapping, whatever required key a vendor or a
\* pattern of it lacks, does not end the program: the constructor completes
\* with a registry and a catalogue that are not empty.
MalformedConfigNeverFatal ==
    [][\A file \in ConfigFiles :
         (ConstructFrom(file) /\ file.kind = "mapping") =>
            /\ coord' = "init"
            /\ DOMAIN vendors' # {}
            /\ DOMAIN patterns' # {}]_vars

\* run() is running: the schedulers are awaited, or the idle loop sleeps.
RunActive == coord \in {"gathering", "idle"}

\* Every vendor's error_rate is what a pass of the updater computes from
\* request_count as it is.
ErrorRatesCurrent ==
    \A v \in DOMAIN vendors : error_rate[v] = ErrorRate(request_count, v)

\* C21: the updater task, once started, ends only when the event loop is
\* torn down at the end of the program; a pass that raised leaves it in the
\* sleep of the except block, from which the next pass is made; and while the
\* run is active, whatever was recorded, a later pass sets every vendor's
\* error_rate from it.
UpdaterNeverStops ==
    /\ [][/\ ((updater \in {"alive", "recovering"}
                 /\ updater' \notin {"alive", "recovering"})
                => (updater' = "cancelled" /\ coord' = "exited"))
           /\ ((updater = "recovering" /\ updater' = "alive")
                => ErrorRatesCurrent')]_vars
    /\ [](RunActive => <>(~RunActive \/ ErrorRatesCurrent))

\* C21 witness: a pass of the updater raised after a request had failed, and
\* the task is in the sleep of the except block, the error rate still unset.
RecoveringWithStaleErrorRate ==
    /\ RunActive
    /\ updater = "recovering"
    /\ \E r \in DOMAIN tasks : tasks[r].status = "error"
    /\ error_rate["vendor-a"] = <<0, 1>>
    /\ ErrorRate(request_count, "vendor-a") = <<100, 1>>

\* C22: in every reachable state total_requests = successful_requests +
\* failed_requests, whatever the order in which the requests in flight
\* complete, and no step lowers total_requests, successful_requests or
\* failed_requests.
StatisticsBalancedAndMonotonic ==
    /\ [](stats.total_requests = stats.successful_requests + stats.failed_requests)
    /\ [][/\ stats'.total_requests >= stats.total_requests
           /\ stats'.successful_requests >= stats.successful_requests
           /\ stats'.failed_requests >= stats.failed_requests]_vars

\* C22 witness: two requests were in flight together; the later one has
\* completed with 503 and is counted, the earlier one is still in flight.
FailureCountedWhileEarlierInFlight ==
    \E r1, r2 \in DOMAIN tasks :
       /\ r1 < r2
       /\ tasks[r1].st = "inflight"
       /\ tasks[r2].st = "returned" /\ tasks[r2].status = "503"
       /\ stats = [total_requests |-> 1, successful_requests |-> 0, failed_requests |-> 1]

\* The job whose processing raised, while the worker is in the except block.
FailedJob == IF worker = "recovering" THEN jobs[job] ELSE 0

\* C23: a fault in the fetch or in process_job never ends the loop of run();
\* a fetch that raises leaves the worker where an empty fetch does, in the
\* sleep of the else branch; a process_job that raises leaves the rest of the
\* batch, and the worker fetches again after the sleep of the except block;
\* a status changes only from "pending" to "completed"; and the job whose
\* processing raised stays "pending" and is in the batch of a later fetch.
WorkerLoopRecovers ==
    /\ [][/\ (worker \in {"fetching", "processing", "sleeping", "recovering"}
                => worker' \in {"fetching", "processing", "sleeping", "recovering"})
          /\ (FetchRaises => (jobs' = <<>> /\ worker' = "sleeping"))
          /\ (ProcessRaises => (worker' = "recovering" /\ jobs_table' = jobs_table))
          /\ ((worker = "recovering" /\ worker' # worker) => worker' = "fetching")
          /\ (\A id \in DOMAIN jobs_table :
                jobs_table'[id] # jobs_table[id]
                  => (jobs_table[id] = "pending" /\ jobs_table'[id] = "completed"))]_vars
    /\ [](worker = "recovering" => jobs_table[FailedJob] = "pending")
    /\ \A id \in 1..MaxJobs :
          [](FailedJob = id
               => <>(worker = "processing" /\ id \in Range(jobs)))

=============================================================================
